---- MODULE Spec2Model ----
(***************************************************************************)
(* Heatmaps (Dijkstra maps) and the mobile AI of rogue-mayor.              *)
(*                                                                         *)
(* Numbers.  Every f64 of the program that the model handles is a multiple *)
(* of one tenth, so a field value v is held as the integer 10*v: 1.0 is    *)
(* ONE, the flee coefficients -1.1 and -1.6 are -11 and -16 tenths, and    *)
(* f64::MAX is F64_MAX, which absorbs the addition of 1.0 as it does in    *)
(* IEEE arithmetic (f64::MAX + 1.0 == f64::MAX).                           *)
(***************************************************************************)
EXTENDS Integers, Sequences, FiniteSets, TLC

\* The heatmap specification (Spec) runs on a grid of MapWidth x MapHeight
\* cells (WIDTH x HEIGHT = 200 x 100 in the program), places at most MaxWalls
\* impassable fixtures and lets the source list grow to MaxSources points.
MapWidth == 3
MapHeight == 2
MaxWalls == 2
MaxSources == 2
\* No specification uses a grid wider or higher than MaxDim.
MaxDim == 7

F64_MAX == 9999999
ONE == 10
COWARDICE_COEFF == -11
BRAVERY_COEFF == -16

VARIABLES
    world,   \* World: width, height (WIDTH, HEIGHT) and statics
    maps,    \* Maps: the heatmap of every MapTag
    mobs,    \* the agent registry: BTreeMap<Point, Mobile>
    last,    \* the last operation and its argument
    saved,   \* the heatmap an observed pair of operations started from
    out      \* the decisions taken by the last tick or call of the AI

vars == <<world, maps, mobs, last, saved, out>>

----------------------------------------------------------------------------
\* Points and grids

Points(w) == (0 .. w.width - 1) \X (0 .. w.height - 1)

\* Grid::new
GridNew(zero, w) == [p \in Points(w) |-> zero]

\* utils::inclusive_range(-1, 1)
inclusive_range == <<-1, 0, 1>>

\* utils::signed_add: a saturating addition of a signed offset
signed_add(u, s) == IF u + s < 0 THEN 0 ELSE u + s

\* The cells the two nested loops over dy and dx visit around pos, in the
\* order they visit them (pos itself included), cells off the grid skipped.
AroundOn(pos, wd, ht) ==
    LET keepY(dy) == ~((dy < 0 /\ pos[2] = 0) \/ (dy > 0 /\ pos[2] = ht - 1))
        keepX(dx) == ~((dx < 0 /\ pos[1] = 0) \/ (dx > 0 /\ pos[1] = wd - 1))
        dxs == SelectSeq(inclusive_range, keepX)
        dys == SelectSeq(inclusive_range, keepY)
    IN [i \in 1 .. Len(dys) * Len(dxs) |->
           <<signed_add(pos[1], dxs[((i - 1) % Len(dxs)) + 1]),
             signed_add(pos[2], dys[((i - 1) \div Len(dxs)) + 1])>>]

\* AroundOn, tabulated for every grid of up to MaxDim x MaxDim cells
AroundTab ==
    [d \in (1 .. MaxDim) \X (1 .. MaxDim) |->
        [pos \in (0 .. d[1] - 1) \X (0 .. d[2] - 1) |-> AroundOn(pos, d[1], d[2])]]

Around(pos, w) == AroundTab[<<w.width, w.height>>][pos]

\* f64 addition of 1.0: f64::MAX absorbs it
FAdd1(v) == IF v = F64_MAX THEN F64_MAX ELSE v + ONE

\* f64 product of a field value and a coefficient, both in tenths
FMul(v, c) == (v * c) \div ONE

----------------------------------------------------------------------------
\* Statics

NoStatic == "None"

\* Static::new: is_impassable
is_impassable(tag) == tag \in {"Dungeon", "GStoreCounter", "InnCounter", "Wall"}

\* utils::is_occupied
is_occupied(pos, mobs_, w) ==
    pos \in DOMAIN mobs_ \/ (w.statics[pos] # NoStatic /\ is_impassable(w.statics[pos]))

\* flood_fill's `empty`: occupancy disregarding mobs
EmptyMobs == [p \in {} |-> 0]

----------------------------------------------------------------------------
\* dijkstra_map.rs

MapTag == {"Adventure", "GeneralStore", "Rest", "Sustenance"}

\* The least of acc and the values the grid holds on the cells
MinOf(grid, cells, acc) ==
    LET vals == {grid[cells[i]] : i \in 1 .. Len(cells)} \cup {acc}
    IN CHOOSE m \in vals : \A v \in vals : m <= v

\* a round that pushes the neighbours whether or not the cell was changed
flood_visit_push_always(grid, queue, w) ==
    LET pos == Head(queue)
        val == grid[pos]
        cells == Around(pos, w)
        my_min == FAdd1(MinOf(grid, cells, val))
        grid2 == IF my_min < val THEN [grid EXCEPT ![pos] = my_min] ELSE grid
        push(p) == grid2[p] > FAdd1(my_min) /\ ~is_occupied(p, EmptyMobs, w)
        pushed == SelectSeq(cells, push)
    IN [grid |-> grid2, queue |-> Tail(queue) \o pushed,
        pos |-> pos, val |-> val, my_min |-> my_min, commit |-> my_min < val, pushed |-> pushed]

\* One round of flood_fill's while loop on a non-empty queue: the cell
\* popped, the value it held, the value proposed for it, whether the value
\* was written, the cells pushed, and the grid and the queue after the round.
flood_visit(grid, queue, w) ==
    LET pos == Head(queue)
        val == grid[pos]
        cells == Around(pos, w)
        my_min == FAdd1(MinOf(grid, cells, val))
        grid2 == IF my_min < val THEN [grid EXCEPT ![pos] = my_min] ELSE grid
        push(p) == grid2[p] > FAdd1(my_min) /\ ~is_occupied(p, EmptyMobs, w)
        pushed == IF my_min < val \/ val = 0 THEN SelectSeq(cells, push) ELSE <<>>
    IN [grid |-> grid2, queue |-> Tail(queue) \o pushed,
        pos |-> pos, val |-> val, my_min |-> my_min, commit |-> my_min < val, pushed |-> pushed]

RECURSIVE flood_loop(_, _, _)
flood_loop(grid, queue, w) ==
    IF queue = <<>> THEN grid
    ELSE LET pos == Head(queue)
             val == grid[pos]
             cells == Around(pos, w)
             local_min == MinOf(grid, cells, val)
             my_min == FAdd1(local_min)
             grid2 == IF my_min < val THEN [grid EXCEPT ![pos] = my_min] ELSE grid
             push(p) == grid2[p] > FAdd1(my_min) /\ ~is_occupied(p, EmptyMobs, w)
             pushed == IF my_min < val \/ val = 0 THEN SelectSeq(cells, push) ELSE <<>>
         IN flood_loop(grid2, Tail(queue) \o pushed, w)

flood_fill(grid, minima, w) == flood_loop(grid, minima, w)

\* The row-major scan of the grid (y outer, x inner)
ScanOrder(w) ==
    [i \in 1 .. w.width * w.height |-> <<(i - 1) % w.width, (i - 1) \div w.width>>]

\* recompute_flee's scan for the cells holding the least flee_cowardly value
RECURSIVE flee_minima(_, _, _, _, _)
flee_minima(m, scan, i, minima, minimal) ==
    IF i > Len(scan) THEN minima
    ELSE LET p == scan[i]
             c == FMul(m.approach[p], COWARDICE_COEFF)
         IN IF m.approach[p] = F64_MAX THEN flee_minima(m, scan, i + 1, minima, minimal)
            ELSE IF c = minimal THEN flee_minima(m, scan, i + 1, Append(minima, p), minimal)
            ELSE IF c < minimal THEN flee_minima(m, scan, i + 1, <<p>>, c)
            ELSE flee_minima(m, scan, i + 1, minima, minimal)

\* recompute_flee smoothing from every reached cell, not from the minima alone
recompute_flee_all_seeds(m, w) ==
    LET cow == [p \in Points(w) |-> IF m.approach[p] # F64_MAX
                                    THEN FMul(m.approach[p], COWARDICE_COEFF)
                                    ELSE m.flee_cowardly[p]]
        bra == [p \in Points(w) |-> IF m.approach[p] # F64_MAX
                                    THEN FMul(m.approach[p], BRAVERY_COEFF)
                                    ELSE m.flee_bravely[p]]
        seeds == SelectSeq(ScanOrder(w), LAMBDA p : m.approach[p] # F64_MAX)
    IN [m EXCEPT !.flee_cowardly = flood_fill(cow, seeds, w),
                 !.flee_bravely = flood_fill(bra, seeds, w)]

recompute_flee(m, w) ==
    LET cow == [p \in Points(w) |-> IF m.approach[p] # F64_MAX
                                    THEN FMul(m.approach[p], COWARDICE_COEFF)
                                    ELSE m.flee_cowardly[p]]
        bra == [p \in Points(w) |-> IF m.approach[p] # F64_MAX
                                    THEN FMul(m.approach[p], BRAVERY_COEFF)
                                    ELSE m.flee_bravely[p]]
        minima == flee_minima(m, ScanOrder(w), 1, <<>>, F64_MAX)
    IN [m EXCEPT !.flee_cowardly = flood_fill(cow, minima, w),
                 !.flee_bravely = flood_fill(bra, minima, w)]

\* Map::new
MapNew(w) == [sources |-> <<>>,
              approach |-> GridNew(F64_MAX, w),
              flee_cowardly |-> GridNew(F64_MAX, w),
              flee_bravely |-> GridNew(F64_MAX, w)]

\* Maps::new
MapsNew(w) == [t \in MapTag |-> MapNew(w)]

add_source_no_rebuild(m, source) == [m EXCEPT !.sources = Append(@, source)]

\* remove_source_no_rebuild taking out the first occurrence only
remove_source_first_only(m, source) ==
    LET at == {i \in 1 .. Len(m.sources) : m.sources[i] = source}
        first == IF at = {} THEN 0 ELSE CHOOSE i \in at : \A j \in at : i <= j
    IN [m EXCEPT !.sources = [i \in 1 .. Len(@) - (IF first = 0 THEN 0 ELSE 1) |->
                                  IF first = 0 \/ i < first THEN @[i] ELSE @[i + 1]]]

remove_source_no_rebuild(m, source) ==
    [m EXCEPT !.sources = SelectSeq(@, LAMBDA s : s # source)]

add_source(m, source, w) ==
    LET m1 == add_source_no_rebuild(m, source)
        a1 == [m1.approach EXCEPT ![source] = 0]
        m2 == [m1 EXCEPT !.approach = flood_fill(a1, <<source>>, w)]
    IN recompute_flee(m2, w)

RECURSIVE set_sources(_, _, _)
set_sources(grid, sources, i) ==
    IF i > Len(sources) THEN grid
    ELSE set_sources([grid EXCEPT ![sources[i]] = 0], sources, i + 1)

\* rebuild_from_sources without the reset of the approach field
rebuild_from_sources_stale(m, w) ==
    LET a0 == set_sources(m.approach, m.sources, 1)
        m1 == [m EXCEPT !.approach = flood_fill(a0, m.sources, w),
                        !.flee_cowardly = GridNew(F64_MAX, w),
                        !.flee_bravely = GridNew(F64_MAX, w)]
    IN recompute_flee(m1, w)

\* rebuild_from_sources that seeds from sources.drain(..), emptying the list
rebuild_from_sources_drain(m, w) ==
    LET a0 == set_sources(GridNew(F64_MAX, w), m.sources, 1)
        m1 == [m EXCEPT !.approach = flood_fill(a0, m.sources, w),
                        !.flee_cowardly = GridNew(F64_MAX, w),
                        !.flee_bravely = GridNew(F64_MAX, w),
                        !.sources = <<>>]
    IN recompute_flee(m1, w)

rebuild_from_sources(m, w) ==
    LET a0 == set_sources(GridNew(F64_MAX, w), m.sources, 1)
        m1 == [m EXCEPT !.approach = flood_fill(a0, m.sources, w),
                        !.flee_cowardly = GridNew(F64_MAX, w),
                        !.flee_bravely = GridNew(F64_MAX, w)]
    IN recompute_flee(m1, w)

\* remove_source without the rebuild
remove_source_no_fill(m, source, w) == remove_source_no_rebuild(m, source)

remove_source(m, source, w) ==
    rebuild_from_sources(remove_source_no_rebuild(m, source), w)

NoMap == [on |-> FALSE]
NoPoint == <<>>
NoOut == [calls |-> 0, recs |-> <<>>]

----------------------------------------------------------------------------
\* Fixtures (statics.rs) and line of sight (utils.rs)

NoTag == "NoTag"

maptag(tag) ==
    CASE tag = "Dungeon" -> "Adventure"
      [] tag = "GStoreCounter" -> "GeneralStore"
      [] tag = "InnCounter" -> "Sustenance"
      [] tag = "Bed" -> "Rest"
      [] OTHER -> NoTag

is_opaque(tag) == tag = "Wall"

\* world.statics.at(pos).map_or(false, |s| s.is_opaque)
opaque_at(pos, w) ==
    pos \in Points(w) /\ w.statics[pos] # NoStatic /\ is_opaque(w.statics[pos])

make_delta(start, end) ==
    IF start < end THEN <<end - start, TRUE>> ELSE <<start - end, FALSE>>

sign(positive) == IF positive THEN 1 ELSE -1

\* the loop of can_see after i rounds: the cell reached, the error term and
\* whether no opaque cell has been met
RECURSIVE can_see_walk(_, _, _, _)
can_see_walk(start, end, w, i) ==
    LET dx == make_delta(start[1], end[1])
        dy == make_delta(start[2], end[2])
        flat == dx[1] > dy[1]
        inc_x == IF flat THEN sign(dx[2]) ELSE 0
        inc_y == IF flat THEN 0 ELSE sign(dy[2])
        err0 == IF flat THEN dy[1] * 2 - dx[1] ELSE dx[1] * 2 - dy[1]
        err_inc == IF flat THEN dy[1] * 2 ELSE dx[1] * 2
        err_dec == IF flat THEN dx[1] * 2 ELSE dy[1] * 2
        corr_x == IF flat THEN 0 ELSE sign(dx[2])
        corr_y == IF flat THEN sign(dy[2]) ELSE 0
    IN IF i = 0 THEN [pos |-> start, err |-> err0, clear |-> TRUE]
       ELSE LET prev == can_see_walk(start, end, w, i - 1)
                corr == prev.err >= 0
                p1 == IF corr
                      THEN <<signed_add(prev.pos[1], corr_x), signed_add(prev.pos[2], corr_y)>>
                      ELSE prev.pos
                p2 == <<signed_add(p1[1], inc_x), signed_add(p1[2], inc_y)>>
            IN IF ~prev.clear THEN prev
               ELSE [pos |-> p2,
                     err |-> (IF corr THEN prev.err - err_dec ELSE prev.err) + err_inc,
                     clear |-> ~opaque_at(p2, w)]

can_see(start, end, w) ==
    LET dx == make_delta(start[1], end[1])
        dy == make_delta(start[2], end[2])
        counter == IF dx[1] > dy[1] THEN dx[1] ELSE dy[1]
    IN can_see_walk(start, end, w, counter).clear

----------------------------------------------------------------------------
\* Scores.  A desire weight is an integer number of hundredths.  A score is
\* k * f64::MAX / 100 + n / 1000 with one of k and n zero, because a finite
\* term added to a multiple of f64::MAX is absorbed; k = INF and k = -INF are
\* the infinities a product or a sum beyond f64::MAX overflows to, and nan is
\* the sum of opposite infinities.

SIGHT_BONUS == 100
WEIGHT_ONE == 100
INF == 1000000

FScore(k, n) == [k |-> k, n |-> n, nan |-> FALSE]
FNaN == [k |-> 0, n |-> 0, nan |-> TRUE]
FZero == FScore(0, 0)
FMax == FScore(WEIGHT_ONE, 0)

FClamp(k) == IF k > WEIGHT_ONE THEN INF ELSE IF k < -WEIGHT_ONE THEN -INF ELSE k

\* wgt * delta
FProd(wgt, delta) ==
    IF delta = F64_MAX THEN FScore(FClamp(wgt), 0) ELSE FScore(0, wgt * delta)

\* a + b
FSum(a, b) ==
    IF a.nan \/ b.nan THEN FNaN
    ELSE IF a.k = 0 /\ b.k = 0 THEN FScore(0, a.n + b.n)
    ELSE IF a.k = 0 THEN b
    ELSE IF b.k = 0 THEN a
    ELSE IF {a.k, b.k} = {INF, -INF} THEN FNaN
    ELSE IF a.k \in {INF, -INF} THEN a
    ELSE IF b.k \in {INF, -INF} THEN b
    ELSE FScore(FClamp(a.k + b.k), 0)

\* a < b
FLess(a, b) ==
    /\ ~a.nan
    /\ ~b.nan
    /\ a.k < b.k \/ (a.k = b.k /\ a.n < b.n)

\* a != 0.0
FNonZero(a) == a.nan \/ a.k # 0 \/ a.n # 0

----------------------------------------------------------------------------
\* Mobiles (mobiles/mod.rs, mobiles/ai.rs)

\* the order of a BTreeMap<MapTag, f64>
TagOrder == <<"Adventure", "GeneralStore", "Rest", "Sustenance">>

Mobile(desires, is_brave, priority_task, home_pos) ==
    [desires |-> desires, is_brave |-> is_brave,
     priority_task |-> priority_task, home_pos |-> home_pos]

\* a remove that leaves the entry in place
MobsRemove_kept(mobs_, pos) == mobs_

MobsRemove(mobs_, pos) == [p \in DOMAIN mobs_ \ {pos} |-> mobs_[p]]

MobsInsert(mobs_, pos, mob) ==
    [p \in DOMAIN mobs_ \cup {pos} |-> IF p = pos THEN mob ELSE mobs_[p]]

\* the tags of the sources that can be seen from pos
locally_visible(pos, w) ==
    {w.sources[p] : p \in {q \in DOMAIN w.sources : can_see(pos, q, w)}}

\* the weighted sum of the heatmaps at cell over the first i desires;
\* a weight of zero counts as attraction when zero_approaches
RECURSIVE weight_here(_, _, _, _, _, _)
weight_here(self, cell, visible, maps_, zero_approaches, i) ==
    IF i = 0 THEN FZero
    ELSE LET tag == TagOrder[i]
             rest == weight_here(self, cell, visible, maps_, zero_approaches, i - 1)
         IN IF tag \notin DOMAIN self.desires THEN rest
            ELSE LET multiplier == IF tag \in visible THEN SIGHT_BONUS ELSE 1
                     wgt == self.desires[tag] * multiplier
                     map == maps_[tag]
                     delta == IF wgt > 0 \/ (zero_approaches /\ wgt = 0)
                              THEN map.approach[cell]
                              ELSE IF self.is_brave THEN map.flee_bravely[cell]
                                                    ELSE map.flee_cowardly[cell]
                 IN FSum(rest, FProd(wgt, delta))

\* the scan in which a later cell of equal score takes the place of the choice
RECURSIVE min_scan_last(_, _, _, _, _, _, _)
min_scan_last(self, cells, visible, maps_, wsum, start, i) ==
    IF i = 0 THEN [new_pos |-> start, min_so_far |-> FMax]
    ELSE LET best == min_scan_last(self, cells, visible, maps_, wsum, start, i - 1)
             here == weight_here(self, cells[i], visible, maps_, wsum, Len(TagOrder))
         IN IF (FLess(here, best.min_so_far) \/ (here = best.min_so_far /\ best.new_pos # start))
               /\ (wsum => FNonZero(here))
            THEN [new_pos |-> cells[i], min_so_far |-> here]
            ELSE best

\* the scan of the cells: the best of the first i of them; wsum tells the
\* scan of ai_heatmap_wsum from the scan of mobiles/mod.rs
RECURSIVE min_scan(_, _, _, _, _, _, _)
min_scan(self, cells, visible, maps_, wsum, start, i) ==
    IF i = 0 THEN [new_pos |-> start, min_so_far |-> FMax]
    ELSE LET best == min_scan(self, cells, visible, maps_, wsum, start, i - 1)
             here == weight_here(self, cells[i], visible, maps_, wsum, Len(TagOrder))
         IN IF FLess(here, best.min_so_far) /\ (wsum => FNonZero(here))
            THEN [new_pos |-> cells[i], min_so_far |-> here]
            ELSE best

\* Mobile::ai of mobiles/mod.rs, which mobiles.rs calls heatmap_ai
heatmap_ai(self, pos, maps_, w) ==
    LET cells == Around(pos, w)
    IN min_scan(self, cells, locally_visible(pos, w), maps_, FALSE, pos, Len(cells)).new_pos

desire_floor(old) == IF old - WEIGHT_ONE < 0 THEN 0 ELSE old - WEIGHT_ONE

satisfy_desire(self, tag) ==
    IF tag \in DOMAIN self.desires
    THEN [self EXCEPT !.desires[tag] = desire_floor(@)]
    ELSE self

interact_at_point(self, pos, w) ==
    IF w.statics[pos] # NoStatic /\ maptag(w.statics[pos]) # NoTag
    THEN satisfy_desire(self, maptag(w.statics[pos]))
    ELSE self

Entry(stage, cand, ok, mobs0, mobs1) ==
    [stage |-> stage, cand |-> cand, ok |-> ok, mobs0 |-> mobs0, mobs1 |-> mobs1]

\* Mobile::step
step(self, pos, mobs_, maps_, w) ==
    LET new_pos == heatmap_ai(self, pos, maps_, w)
    IN IF new_pos = pos
       THEN [self |-> interact_at_point(self, pos, w), mobs |-> mobs_,
             trace |-> <<Entry("here", pos, TRUE, mobs_, mobs_)>>]
       ELSE IF is_occupied(new_pos, mobs_, w)
       THEN IF heatmap_ai(self, new_pos, maps_, w) = new_pos
            THEN [self |-> interact_at_point(self, new_pos, w), mobs |-> mobs_,
                  trace |-> <<Entry("move", new_pos, FALSE, mobs_, mobs_),
                              Entry("there", new_pos, TRUE, mobs_, mobs_)>>]
            ELSE [self |-> self, mobs |-> mobs_,
                  trace |-> <<Entry("move", new_pos, FALSE, mobs_, mobs_),
                              Entry("there", new_pos, FALSE, mobs_, mobs_)>>]
       ELSE LET moved == MobsInsert(MobsRemove(mobs_, pos), new_pos, self)
            IN [self |-> self, mobs |-> moved,
                trace |-> <<Entry("move", new_pos, TRUE, mobs_, moved)>>]

\* the desires in whose heatmap cell holds 0 and whose weight is positive
wanted_here(self, cell, maps_) ==
    \E tag \in DOMAIN self.desires :
        self.desires[tag] > 0 /\ maps_[tag].approach[cell] = 0

ai_interact_nearby(self, pos, maps_, w) ==
    LET cells == SelectSeq(Around(pos, w), LAMBDA c : wanted_here(self, c, maps_))
    IN IF cells = <<>> THEN NoPoint ELSE Head(cells)

ai_heatmap_wsum(self, pos, maps_, w) ==
    LET cells == SelectSeq(Around(pos, w), LAMBDA c : c # pos)
    IN min_scan(self, cells, locally_visible(pos, w), maps_, TRUE, NoPoint, Len(cells)).new_pos

\* Map::new(vec![target], world): the approach field of the single source
\* target, fully propagated
MapTo(target, w) ==
    flood_fill([GridNew(F64_MAX, w) EXCEPT ![target] = 0], <<target>>, w)

\* Map::get_new_pos(pos): the first of the least in-bounds neighbours of pos
\* in the field, and nothing when none of them holds a distance
get_new_pos(approach, pos, w) ==
    LET cells == SelectSeq(Around(pos, w), LAMBDA c : c # pos)
        least == MinOf(approach, cells, F64_MAX)
        firsts == SelectSeq(cells, LAMBDA c : approach[c] = least)
    IN IF least = F64_MAX THEN NoPoint ELSE Head(firsts)

ai_pathfind(self, pos, w, target) == get_new_pos(MapTo(target, w), target, w)

ai_advance_task(self, pos, w, target) == ai_pathfind(self, pos, w, target)

\* ai_move_commit without the test of the destination
ai_move_commit_blind(self, pos, mobs_, w, new_pos) ==
    [ok |-> TRUE, mobs |-> MobsInsert(MobsRemove(mobs_, pos), new_pos, self)]

ai_move_commit(self, pos, mobs_, w, new_pos) ==
    IF is_occupied(new_pos, mobs_, w)
    THEN [ok |-> FALSE, mobs |-> mobs_]
    ELSE [ok |-> TRUE, mobs |-> MobsInsert(MobsRemove(mobs_, pos), new_pos, self)]

ai_interact_at_point_commit(self, w, target_pos) ==
    LET s == w.statics[target_pos]
    IN IF s # NoStatic /\ maptag(s) # NoTag /\ maptag(s) \in DOMAIN self.desires
       THEN [ok |-> TRUE, self |-> [self EXCEPT !.desires[maptag(s)] = desire_floor(@)]]
       ELSE [ok |-> FALSE, self |-> self]

\* a stage that takes the mobile off the registry when its move is refused
move_stage_vacate(acc, stage, cand, pos, w) ==
    IF acc.done THEN acc
    ELSE IF cand = NoPoint
    THEN [acc EXCEPT !.trace = Append(@, Entry(stage, NoPoint, FALSE, acc.mobs, acc.mobs))]
    ELSE LET r == ai_move_commit(acc.self, pos, acc.mobs, w, cand)
             left == IF r.ok THEN r.mobs ELSE MobsRemove(acc.mobs, pos)
         IN [self |-> acc.self, mobs |-> left, done |-> r.ok,
             trace |-> Append(acc.trace, Entry(stage, cand, r.ok, acc.mobs, left))]

\* One stage of Mobile::ai that commits a move to cand.  acc is the state of
\* the call: the mobile, the registry, the stages tried and whether the call
\* has returned.
move_stage(acc, stage, cand, pos, w) ==
    IF acc.done THEN acc
    ELSE IF cand = NoPoint
    THEN [acc EXCEPT !.trace = Append(@, Entry(stage, NoPoint, FALSE, acc.mobs, acc.mobs))]
    ELSE LET r == ai_move_commit(acc.self, pos, acc.mobs, w, cand)
         IN [self |-> acc.self, mobs |-> r.mobs, done |-> r.ok,
             trace |-> Append(acc.trace, Entry(stage, cand, r.ok, acc.mobs, r.mobs))]

\* stage 1 without its return
interact_stage_no_return(acc, pos, maps_, w) ==
    LET cand == ai_interact_nearby(acc.self, pos, maps_, w)
    IN IF cand = NoPoint
       THEN [acc EXCEPT !.trace = Append(@, Entry("interact", NoPoint, FALSE, acc.mobs, acc.mobs))]
       ELSE LET r == ai_interact_at_point_commit(acc.self, w, cand)
            IN [self |-> r.self, mobs |-> acc.mobs, done |-> FALSE,
                trace |-> Append(acc.trace, Entry("interact", cand, r.ok, acc.mobs, acc.mobs))]

\* stage 1, interact at point
interact_stage(acc, pos, maps_, w) ==
    LET cand == ai_interact_nearby(acc.self, pos, maps_, w)
    IN IF cand = NoPoint
       THEN [acc EXCEPT !.trace = Append(@, Entry("interact", NoPoint, FALSE, acc.mobs, acc.mobs))]
       ELSE LET r == ai_interact_at_point_commit(acc.self, w, cand)
            IN [self |-> r.self, mobs |-> acc.mobs, done |-> r.ok,
                trace |-> Append(acc.trace, Entry("interact", cand, r.ok, acc.mobs, acc.mobs))]

\* stage 5, giving up
give_up(acc) ==
    IF acc.done THEN acc
    ELSE [acc EXCEPT !.trace = Append(@, Entry("give up", NoPoint, FALSE, acc.mobs, acc.mobs))]

\* Mobile::ai of mobiles/ai.rs
ai(self, pos, mobs_, maps_, w) ==
    LET a0 == [self |-> self, mobs |-> mobs_, done |-> FALSE, trace |-> <<>>]
        a1 == interact_stage(a0, pos, maps_, w)
        a2 == move_stage(a1, "task",
                         IF self.priority_task = NoPoint THEN NoPoint
                         ELSE ai_advance_task(a1.self, pos, w, self.priority_task),
                         pos, w)
        a3 == move_stage(a2, "heatmap", ai_heatmap_wsum(a2.self, pos, maps_, w), pos, w)
        a4 == move_stage(a3, "wander", ai_pathfind(a3.self, pos, w, self.home_pos), pos, w)
    IN give_up(a4)

----------------------------------------------------------------------------
\* The Adventure heatmap under its three public operations

\* World::new, with Wall fixtures on the cells of S
WorldOf(wd, ht, S) ==
    [width |-> wd, height |-> ht,
     statics |-> [p \in (0 .. wd - 1) \X (0 .. ht - 1) |->
                     IF p \in S THEN "Wall" ELSE NoStatic],
     sources |-> EmptyMobs]

MapPoints == (0 .. MapWidth - 1) \X (0 .. MapHeight - 1)

Init ==
    /\ \E S \in SUBSET MapPoints :
          /\ Cardinality(S) <= MaxWalls
          /\ world = WorldOf(MapWidth, MapHeight, S)
    /\ maps = MapsNew(world)
    /\ last = [op |-> "new", arg |-> NoPoint]
    /\ saved = NoMap
    /\ mobs = EmptyMobs
    /\ out = NoOut

\* the heatmap is the output of rebuild_from_sources
Fresh == last.op \in {"rebuild_from_sources", "remove_source"}

\* add_source(p), called while the list holds fewer than limit sources.
\* `saved` keeps the rebuilt heatmap the call started from.
AddSourceAct(p, limit) ==
    /\ Len(maps["Adventure"].sources) < limit
    /\ maps' = [maps EXCEPT !["Adventure"] = add_source(@, p, world)]
    /\ last' = [op |-> "add_source", arg |-> p]
    /\ saved' = IF Fresh THEN [on |-> TRUE, m |-> maps["Adventure"], c |-> p] ELSE NoMap
    /\ UNCHANGED <<world, mobs, out>>

AddSource(p) == AddSourceAct(p, MaxSources)

\* remove_source(p). `saved` is kept when p is the point the call before added.
RemoveSource(p) ==
    /\ maps' = [maps EXCEPT !["Adventure"] = remove_source(@, p, world)]
    /\ last' = [op |-> "remove_source", arg |-> NoPoint]
    /\ saved' = IF last = [op |-> "add_source", arg |-> p] THEN saved ELSE NoMap
    /\ UNCHANGED <<world, mobs, out>>

\* rebuild_from_sources(). `saved` keeps the heatmap a first call left.
RebuildFromSources ==
    /\ maps' = [maps EXCEPT !["Adventure"] = rebuild_from_sources(@, world)]
    /\ last' = [op |-> "rebuild_from_sources", arg |-> NoPoint]
    /\ saved' = IF last.op = "rebuild_from_sources"
                THEN [on |-> TRUE, m |-> maps["Adventure"], c |-> NoPoint] ELSE NoMap
    /\ UNCHANGED <<world, mobs, out>>

Next ==
    \/ \E p \in Points(world) : AddSource(p)
    \/ \E p \in Points(world) : RemoveSource(p)
    \/ RebuildFromSources

Spec == Init /\ [][Next]_vars

----------------------------------------------------------------------------
\* The add/remove scenario: a heatmap rebuilt from two sources A and B, to
\* which a third source is added and from which a source is then removed.

SymBase == 2

InitSym ==
    /\ \E S \in SUBSET MapPoints :
          /\ Cardinality(S) <= MaxWalls
          /\ world = WorldOf(MapWidth, MapHeight, S)
    /\ \E A \in MapPoints, B \in MapPoints :
          maps = [MapsNew(world) EXCEPT !["Adventure"] =
                     rebuild_from_sources([@ EXCEPT !.sources = <<A, B>>], world)]
    /\ last = [op |-> "rebuild_from_sources", arg |-> NoPoint]
    /\ saved = NoMap
    /\ mobs = EmptyMobs
    /\ out = NoOut

SymAdd(p) ==
    /\ last.op = "rebuild_from_sources"
    /\ AddSourceAct(p, SymBase + 1)

SymRemove(p) ==
    /\ last.op = "add_source"
    /\ RemoveSource(p)

NextSym ==
    \/ \E p \in Points(world) : SymAdd(p)
    \/ \E p \in Points(world) : SymRemove(p)

SpecSym == InitSym /\ [][NextSym]_vars

----------------------------------------------------------------------------
\* Agents on a small map: fixtures are placed, the heatmaps rebuilt, and the
\* agents then take their turns.

AiWidth == 3
AiHeight == 3
MaxThings == 2
MaxCalls == 1

AiPoints == (0 .. AiWidth - 1) \X (0 .. AiHeight - 1)

Fixtures == {"Wall", "Dungeon", "Bed"}

\* World::new with the fixtures of layout, each source fixture registered
WorldWith(wd, ht, layout) ==
    [width |-> wd, height |-> ht,
     statics |-> [p \in (0 .. wd - 1) \X (0 .. ht - 1) |->
                     IF p \in DOMAIN layout THEN layout[p] ELSE NoStatic],
     sources |-> [p \in {q \in DOMAIN layout : maptag(layout[q]) # NoTag} |->
                     maptag(layout[p])]]

\* the heatmaps of w: every source added, then Maps::rebuild_all
MapsOf(w) ==
    [tag \in MapTag |->
        rebuild_from_sources(
            [MapNew(w) EXCEPT !.sources =
                SelectSeq(ScanOrder(w), LAMBDA p : p \in DOMAIN w.sources /\ w.sources[p] = tag)],
            w)]

Only(tag, weight) == [t \in {tag} |-> weight]

Profiles ==
    {Mobile(Only("Adventure", WEIGHT_ONE), FALSE, NoPoint, <<0, 0>>),
     Mobile(Only("Adventure", -WEIGHT_ONE), FALSE, NoPoint, <<0, 0>>),
     Mobile(Only("Adventure", -WEIGHT_ONE), TRUE, NoPoint, <<0, 0>>),
     Mobile([t \in {"Adventure", "Rest"} |-> IF t = "Rest" THEN WEIGHT_ONE \div 2 ELSE WEIGHT_ONE],
            FALSE, NoPoint, <<0, 0>>),
     Mobile(Only("Adventure", 0), FALSE, NoPoint, <<0, 0>>),
     Mobile(Only("Adventure", WEIGHT_ONE), FALSE, <<AiWidth - 1, AiHeight - 1>>, <<0, 0>>)}

\* a mobile without desires
Bystander == Mobile(EmptyMobs, FALSE, NoPoint, <<0, 0>>)

InitAI ==
    /\ \E S \in SUBSET AiPoints :
          /\ Cardinality(S) <= MaxThings
          /\ \E layout \in [S -> Fixtures] :
                /\ world = WorldWith(AiWidth, AiHeight, layout)
                /\ maps = MapsOf(world)
                /\ \E a \in AiPoints, prof \in Profiles :
                      /\ ~is_occupied(a, EmptyMobs, world)
                      /\ \/ mobs = MobsInsert(EmptyMobs, a, prof)
                         \/ \E b \in AiPoints :
                               /\ Cardinality(S) < MaxThings
                               /\ b # a
                               /\ ~is_occupied(b, EmptyMobs, world)
                               /\ mobs = MobsInsert(MobsInsert(EmptyMobs, a, prof), b, Bystander)
    /\ last = [op |-> "rebuild_from_sources", arg |-> NoPoint]
    /\ saved = NoMap
    /\ out = NoOut

Rec(proc, pos, self, mobs_, r) ==
    [proc |-> proc, pos |-> pos, self0 |-> self, self1 |-> r.self,
     mobs0 |-> mobs_, mobs1 |-> r.mobs, trace |-> r.trace]

\* the order of a BTreeMap<Point, Mobile>: by x, then by y
PointOrder(w) ==
    [i \in 1 .. w.width * w.height |-> <<(i - 1) \div w.height, (i - 1) % w.height>>]

\* the pass made over the live registry instead: whichever mob holds the
\* j-th point when the pass gets there is stepped
RECURSIVE tick_live(_, _, _, _, _)
tick_live(old, maps_, w, pts, j) ==
    IF j = 0 THEN [mobs |-> old, recs |-> <<>>]
    ELSE LET prev == tick_live(old, maps_, w, pts, j - 1)
             pos == pts[j]
         IN IF pos \in DOMAIN prev.mobs
            THEN LET r == step(prev.mobs[pos], pos, prev.mobs, maps_, w)
                 IN [mobs |-> r.mobs,
                     recs |-> Append(prev.recs, Rec("step", pos, prev.mobs[pos], prev.mobs, r))]
            ELSE prev

tick_loop_live(old, maps_, w, keys, i) ==
    tick_live(old, maps_, w, PointOrder(w), w.width * w.height)

\* the game loop's pass over the mobs, after the first i of them
RECURSIVE tick_loop(_, _, _, _, _)
tick_loop(old, maps_, w, keys, i) ==
    IF i = 0 THEN [mobs |-> old, recs |-> <<>>]
    ELSE LET prev == tick_loop(old, maps_, w, keys, i - 1)
             pos == keys[i]
         IN IF pos \in DOMAIN prev.mobs
            THEN LET r == step(old[pos], pos, prev.mobs, maps_, w)
                 IN [mobs |-> r.mobs,
                     recs |-> Append(prev.recs, Rec("step", pos, old[pos], prev.mobs, r))]
            ELSE prev

\* one round of the game loop, while fewer than limit rounds were played:
\* every mob takes its step
TickWithin(limit) ==
    /\ out.calls < limit
    /\ LET keys == SelectSeq(PointOrder(world), LAMBDA p : p \in DOMAIN mobs)
           r == tick_loop(mobs, maps, world, keys, Len(keys))
       IN /\ mobs' = r.mobs
          /\ out' = [calls |-> out.calls + 1, recs |-> r.recs]
    /\ UNCHANGED <<world, maps, last, saved>>

Tick == TickWithin(MaxCalls)

\* one call of Mobile::ai for the mob at pos
AiCall(pos) ==
    /\ out.calls < MaxCalls
    /\ LET r == ai(mobs[pos], pos, mobs, maps, world)
       IN /\ mobs' = r.mobs
          /\ out' = [calls |-> out.calls + 1,
                     recs |-> <<Rec("ai", pos, mobs[pos], mobs, r)>>]
    /\ UNCHANGED <<world, maps, last, saved>>

NextAI ==
    \/ Tick
    \/ \E pos \in DOMAIN mobs : AiCall(pos)

SpecAI == InitAI /\ [][NextAI]_vars

----------------------------------------------------------------------------
\* Vocabulary of the properties

M == maps["Adventure"]

Srcs(m) == {m.sources[i] : i \in 1 .. Len(m.sources)}

Passable(p) == ~is_occupied(p, EmptyMobs, world)

\* p and q are distinct cells one 8-directional unit step apart
Adjacent(p, q) ==
    /\ p # q
    /\ p[1] - q[1] \in {-1, 0, 1}
    /\ p[2] - q[2] \in {-1, 0, 1}

Nbrs(p) == {q \in Points(world) : Adjacent(p, q)}

\* The cells from which a source is at most k steps away along passable cells
RECURSIVE Ball(_, _)
Ball(S, k) ==
    IF k = 0 THEN S
    ELSE LET B == Ball(S, k - 1)
         IN B \cup {q \in Points(world) : Passable(q) /\ \E c \in B : Adjacent(c, q)}

Diameter == world.width * world.height

\* The least number of steps from p to a source of S, for p in Ball(S, Diameter)
StepsTo(S, p) == CHOOSE k \in 0 .. Diameter : p \in Ball(S, k) /\ \A j \in 0 .. k - 1 : p \notin Ball(S, j)

SetMin(V) == CHOOSE m \in V : \A v \in V : m <= v

----------------------------------------------------------------------------
\* C1: after rebuild_from_sources every source holds 0, every passable
\* non-source cell that reaches a source through passable cells holds the
\* least number of 8-directional steps to a source, and every passable cell
\* that reaches none holds the sentinel.
C1_DistanceCorrect ==
    Fresh =>
        \A p \in Points(world) :
            /\ p \in Srcs(M) => M.approach[p] = 0
            /\ (p \notin Srcs(M) /\ Passable(p)) =>
                  M.approach[p] = IF p \in Ball(Srcs(M), Diameter)
                                  THEN StepsTo(Srcs(M), p) * ONE
                                  ELSE F64_MAX

\* a rebuilt field with a source, a passable cell one or more steps away
\* from it and a passable cell cut off from every source
C1_Witness ==
    /\ last.op = "rebuild_from_sources"
    /\ M.sources # <<>>
    /\ \E p \in Points(world) : Passable(p) /\ M.approach[p] = ONE
    /\ \E p \in Points(world) : Passable(p) /\ M.approach[p] = F64_MAX

\* C2: add_source(p) on a rebuilt heatmap leaves the approach field
\* rebuild_from_sources computes for the extended source list.
C2_AddIsRebuild ==
    (last.op = "add_source" /\ saved.on) =>
        M.approach = rebuild_from_sources(M, world).approach

\* C3: every source holds 0, and every passable non-source cell with a finite
\* approach value holds 1 + the least value of its in-bounds 8-neighbours.
C3_LocalEquation ==
    \A p \in Points(world) :
        /\ p \in Srcs(M) => M.approach[p] = 0
        /\ (p \notin Srcs(M) /\ Passable(p) /\ M.approach[p] # F64_MAX) =>
              M.approach[p] = SetMin({M.approach[q] : q \in Nbrs(p)}) + ONE

\* a field whose cells, finite or not, are not its least ones all have a
\* neighbour holding exactly 1 less
Monotonic(grid) ==
    \A p \in Points(world) :
        (grid[p] # F64_MAX /\ grid[p] # SetMin({grid[q] : q \in Points(world)})) =>
            \E q \in Nbrs(p) : grid[q] = grid[p] - ONE

\* C4: after recompute_flee each flee field is a monotonic distance field
\* anchored at its own minima.
C4_FleeMonotonic ==
    last.op # "new" => Monotonic(M.flee_cowardly) /\ Monotonic(M.flee_bravely)

\* C6 as stated: add_source(C) then remove_source(C) on a heatmap rebuilt
\* from two sources restores the source list and the three fields, for every C.
C6_AddRemoveAnyPoint ==
    (last.op = "remove_source" /\ saved.on) => M = saved.m

\* C6, amended: the same for every C that is not already a source.
C6_AddRemoveNewPoint ==
    (last.op = "remove_source" /\ saved.on /\ saved.c \notin Srcs(saved.m)) =>
        M = saved.m

\* C was added to a heatmap rebuilt from two distinct sources and removed
\* again, and it had lowered the approach value of some cell in between
C6_Witness ==
    /\ last.op = "remove_source"
    /\ saved.on
    /\ Len(saved.m.sources) = 2
    /\ saved.m.sources[1] # saved.m.sources[2]
    /\ saved.c \notin Srcs(saved.m)
    /\ M.approach # add_source(saved.m, saved.c, world).approach
    /\ \E p \in Points(world) : M.approach[p] = 2 * ONE

\* C7: a second rebuild_from_sources in succession leaves the source list and
\* the three fields as the first call left them.
C7_RebuildIdempotent ==
    (last.op = "rebuild_from_sources" /\ saved.on) => M = saved.m

\* rebuild_from_sources ran twice on a heatmap with a source and a wall
C7_Witness ==
    /\ last.op = "rebuild_from_sources"
    /\ saved.on
    /\ M.sources # <<>>
    /\ \E p \in Points(world) : ~Passable(p)
    /\ \E p \in Points(world) : M.flee_cowardly[p] = 2 * COWARDICE_COEFF

----------------------------------------------------------------------------
\* Vocabulary of the properties of the agents

\* the decisions of the last tick or call, and the commits each one tried
Decisions == {out.recs[i] : i \in DOMAIN out.recs}

Tried(r) == {r.trace[j] : j \in DOMAIN r.trace}

StageOrder == <<"interact", "task", "heatmap", "wander", "give up">>

MoveStages == {"task", "heatmap", "wander", "move"}

\* the desires of mob that were reduced between mob0 and mob1
Reduced(mob0, mob1) ==
    {tag \in DOMAIN mob0.desires : mob1.desires[tag] # mob0.desires[tag]}

\* the registry after the mob at pos has gone to dest
Relocated(mobs_, pos, dest) ==
    [p \in (DOMAIN mobs_ \ {pos}) \cup {dest} |-> IF p = dest THEN mobs_[pos] ELSE mobs_[p]]

\* mob has a desire of non-zero weight, that desire is tag, and its weight is negative
OnlyAverse(mob, tag) ==
    /\ tag \in DOMAIN mob.desires
    /\ mob.desires[tag] < 0
    /\ \A t \in DOMAIN mob.desires \ {tag} : mob.desires[t] = 0

\* C5: an agent whose only non-zero desire is negative never commits a
\* heatmap-travel move to a cell nearer to that desire's sources than the
\* cell it leaves.
C5_AversionKeepsDistance ==
    \A r \in Decisions : \A e \in Tried(r) : \A tag \in MapTag :
        (e.stage \in {"heatmap", "move"} /\ e.ok /\ OnlyAverse(r.self0, tag)) =>
            maps[tag].approach[e.cand] >= maps[tag].approach[r.pos]

\* C8: one call of Mobile::ai tries the stages in their order, tries a stage
\* only after every earlier one found nothing or failed to commit, and
\* commits at most once: one relocation or one change of a desire weight.
C8_StagesInOrder ==
    \A r \in Decisions :
        /\ r.proc = "ai" =>
              /\ Len(r.trace) \in 1 .. Len(StageOrder)
              /\ \A j \in DOMAIN r.trace :
                    /\ r.trace[j].stage = StageOrder[j]
                    /\ j < Len(r.trace) => ~r.trace[j].ok
        /\ Cardinality(Reduced(r.self0, r.self1)) + (IF r.mobs1 # r.mobs0 THEN 1 ELSE 0) <= 1
        /\ r.mobs1 # r.mobs0 =>
              \E dest \in Points(world) \ DOMAIN r.mobs0 :
                  r.mobs1 = Relocated(r.mobs0, r.pos, dest)

\* a call of Mobile::ai whose priority task found a step and failed to
\* commit it, and whose heatmap travel then moved the agent
C8_Witness ==
    \E r \in Decisions :
        /\ r.proc = "ai"
        /\ Len(r.trace) = 3
        /\ r.trace[1].cand = NoPoint
        /\ r.trace[2].cand # NoPoint
        /\ ~r.trace[2].ok
        /\ r.trace[3].ok
        /\ r.mobs1 # r.mobs0

\* dest holds no other agent than the one at pos and no impassable fixture
FreeFor(pos, dest, mobs_) ==
    /\ dest \notin DOMAIN mobs_ \ {pos}
    /\ ~(world.statics[dest] # NoStatic /\
         world.statics[dest] \in {"Dungeon", "GStoreCounter", "InnCounter", "Wall"})

\* C9: a move commit leaves the agent on the destination cell, the rest of
\* the registry untouched, exactly when that cell holds no other agent and no
\* impassable fixture; a commit that fails leaves the registry as it was.
C9_MoveCommit ==
    \A r \in Decisions : \A e \in Tried(r) :
        (e.stage \in MoveStages /\ e.cand # NoPoint) =>
            /\ (e.mobs1 = Relocated(e.mobs0, r.pos, e.cand)) <=> FreeFor(r.pos, e.cand, e.mobs0)
            /\ e.ok => e.mobs1 = Relocated(e.mobs0, r.pos, e.cand)
            /\ ~e.ok => e.mobs1 = e.mobs0

\* a call of Mobile::ai whose first move was refused because another agent
\* holds the cell and whose next move, to a free cell, relocated the agent
C9_Witness ==
    \E r \in Decisions : \E i \in DOMAIN r.trace, j \in DOMAIN r.trace :
        /\ r.proc = "ai"
        /\ r.trace[i].stage \in MoveStages
        /\ r.trace[i].cand \in DOMAIN r.mobs0 \ {r.pos}
        /\ ~r.trace[i].ok
        /\ r.trace[j].stage \in MoveStages
        /\ r.trace[j].ok
        /\ r.pos \notin DOMAIN r.mobs1
        /\ r.trace[j].cand \in DOMAIN r.mobs1

\* q is an occupied cell next to the agent of r and a source of a desire of
\* positive weight of that agent
SourceAtHand(r, q) ==
    /\ Adjacent(r.pos, q)
    /\ is_occupied(q, r.mobs0, world)
    /\ \E tag \in DOMAIN r.self0.desires :
          r.self0.desires[tag] > 0 /\ maps[tag].approach[q] = 0

\* C10: an agent next to an occupied source of one of its positively
\* weighted desires interacts on its turn: a desire weight is reduced.
C10_InteractsWithSourceAtHand ==
    \A r \in Decisions :
        (\E q \in Points(world) : SourceAtHand(r, q)) =>
            Reduced(r.self0, r.self1) # {}

\* the interactions committed in decision r: by Mobile::ai at stage 1, by
\* Mobile::step on its own cell or on the occupied cell it chose, with a
\* fixture whose desire the agent holds
Interactions(r) ==
    {e \in Tried(r) :
        /\ e.stage \in {"interact", "here", "there"}
        /\ e.ok
        /\ maptag(world.statics[e.cand]) \in DOMAIN r.self0.desires}

\* C11: a committed interaction leaves the matched desire at max(old - 1, 0),
\* which is never greater than the old weight, and leaves every other desire
\* weight as it was.
C11_InteractionReduces ==
    \A r \in Decisions : \A e \in Interactions(r) :
        LET tag == maptag(world.statics[e.cand])
            old == r.self0.desires[tag]
            new == r.self1.desires[tag]
        IN /\ DOMAIN r.self1.desires = DOMAIN r.self0.desires
           /\ new = IF old - WEIGHT_ONE > 0 THEN old - WEIGHT_ONE ELSE 0
           /\ new <= old
           /\ \A t \in DOMAIN r.self0.desires \ {tag} :
                 r.self1.desires[t] = r.self0.desires[t]

\* the action a decision chose: the commits it tried and how each one ended
Choice(trace) ==
    [j \in DOMAIN trace |-> <<trace[j].stage, trace[j].cand, trace[j].ok>>]

\* the registry the last tick started from
BeforeTick == out.recs[1].mobs0

Reverse(s) == [i \in 1 .. Len(s) |-> s[Len(s) + 1 - i]]

TickDone == out.recs # <<>> /\ out.recs[1].proc = "step"

\* C12: in a tick every agent decides as it would against the registry the
\* tick started from, and the registry after the tick is the one the
\* opposite processing order gives.
C12_DecidesOnSnapshot ==
    TickDone =>
        /\ \A r \in Decisions :
              Choice(r.trace) = Choice(step(r.self0, r.pos, BeforeTick, maps, world).trace)
        /\ LET keys == SelectSeq(PointOrder(world), LAMBDA p : p \in DOMAIN BeforeTick)
           IN mobs = tick_loop(BeforeTick, maps, world, Reverse(keys), Len(keys)).mobs

\* the number of entries of registry reg that hold mob
Held(reg, mob) == Cardinality({p \in DOMAIN reg : reg[p] = mob})

\* reg1 holds the agents of reg0, as many of each
SameAgents(reg0, reg1) ==
    /\ Cardinality(DOMAIN reg1) = Cardinality(DOMAIN reg0)
    /\ \A p \in DOMAIN reg0 : Held(reg1, reg0[p]) = Held(reg0, reg0[p])

\* C13: a turn leaves the registry as it was or moves the one agent to a
\* cell no agent held, and after a tick the registry holds the agents it
\* held before the tick, each once.
C13_SingleRelocation ==
    /\ \A r \in Decisions :
          /\ SameAgents(r.mobs0, r.mobs1)
          /\ \/ r.mobs1 = r.mobs0
             \/ \E dest \in Points(world) \ DOMAIN r.mobs0 :
                   r.mobs1 = Relocated(r.mobs0, r.pos, dest)
    /\ TickDone =>
          /\ SameAgents(BeforeTick, mobs)
          /\ Len(out.recs) = Cardinality(DOMAIN BeforeTick)
          /\ mobs = out.recs[Len(out.recs)].mobs1

\* a tick in which two agents have both moved, the second one to the cell
\* the first one left
C13_Witness ==
    /\ TickDone
    /\ Len(out.recs) = 2
    /\ out.recs[1].pos \notin DOMAIN out.recs[1].mobs1
    /\ out.recs[1].pos \in DOMAIN mobs
    /\ out.recs[2].pos \notin DOMAIN mobs

----------------------------------------------------------------------------
\* The visibility scenario: an agent whose Adventure source is far and
\* hidden by walls and whose other desire has its source next to it.

SightWidth == 7
SightHeight == 2
SightWalls == 2
SightFar == 5

SightPoints == (0 .. SightWidth - 1) \X (0 .. SightHeight - 1)

\* the fixtures of the scenario: walls on W, a Dungeon on d, fixture on y
SightLayout(W, d, y, fixture) ==
    [p \in W \cup {d, y} |-> IF p = d THEN "Dungeon" ELSE IF p = y THEN fixture ELSE "Wall"]

Watcher(tag) ==
    Mobile([t \in {"Adventure", tag} |-> IF t = tag THEN 2 ELSE WEIGHT_ONE],
           FALSE, NoPoint, <<0, 0>>)

\* Only walls are opaque, so the Dungeon is looked for on the map that holds
\* the walls alone before the other fixtures are placed.
InitSight ==
    /\ \E W \in SUBSET SightPoints :
          /\ Cardinality(W) <= SightWalls
          /\ \E d \in SightPoints \ W, a \in SightPoints \ W :
                /\ a # d
                /\ ~can_see(a, d, WorldOf(SightWidth, SightHeight, W))
                /\ \E y \in SightPoints \ (W \cup {d, a}), fixture \in {"Bed", "InnCounter"} :
                      /\ Adjacent(a, y)
                      /\ world = WorldWith(SightWidth, SightHeight, SightLayout(W, d, y, fixture))
                      /\ ~can_see(a, d, world)
                      /\ can_see(a, y, world)
                      /\ maps = MapsOf(world)
                      /\ maps["Adventure"].approach[a] = SightFar * ONE
                      /\ mobs = MobsInsert(EmptyMobs, a, Watcher(maptag(fixture)))
    /\ last = [op |-> "rebuild_from_sources", arg |-> NoPoint]
    /\ saved = NoMap
    /\ out = NoOut

SpecSight == InitSight /\ [][NextAI]_vars

\* the desire of the watcher whose source is next to it, and that source
NearTag(r) == CHOOSE tag \in DOMAIN r.self0.desires : tag # "Adventure"

NearSource(r) == CHOOSE p \in DOMAIN world.sources : world.sources[p] = NearTag(r)

\* C15: the source next to the agent is the only one it sees, so its weight
\* alone is multiplied by 100, and the agent's action is directed at it: the
\* agent steps onto that source or interacts with it.
C15_VisibleSourceWins ==
    \A r \in Decisions :
        /\ locally_visible(r.pos, world) = {NearTag(r)}
        /\ \/ r.mobs1 = Relocated(r.mobs0, r.pos, NearSource(r))
           \/ NearTag(r) \in Reduced(r.self0, r.self1)

\* ---------------------------------------------------------------------
\* The game of main.rs on an open map: one Dungeon, one adventurer, a few
\* rounds of the game loop.

GameWidth == 5

GameHeight == 5

GameTicks == 3

GamePoints == (0 .. GameWidth - 1) \X (0 .. GameHeight - 1)

\* the set-up of game(): the Dungeon is placed, then added as a source of
\* the new Adventure map
GameWorld(d) == WorldWith(GameWidth, GameHeight, [p \in {d} |-> "Dungeon"])

GameMaps(d) == [MapsNew(GameWorld(d)) EXCEPT !["Adventure"] = add_source(@, d, GameWorld(d))]

InitGame ==
    /\ \E d \in GamePoints :
          /\ world = GameWorld(d)
          /\ maps = GameMaps(d)
          /\ \E a \in GamePoints \ {d} :
                mobs = MobsInsert(EmptyMobs, a, Mobile(Only("Adventure", WEIGHT_ONE), FALSE, NoPoint, <<0, 0>>))
    /\ last = [op |-> "add_source", arg |-> NoPoint]
    /\ saved = NoMap
    /\ out = NoOut

NextGame == TickWithin(GameTicks)

SpecGame == InitGame /\ [][NextGame]_vars

Centre == <<2, 2>>

Corner == <<0, 0>>

\* the weight of Adventure of the one agent of the registry
Keen == mobs[CHOOSE p \in DOMAIN mobs : TRUE].desires["Adventure"]

\* C16: on the open 5x5 map with the Adventure source at (2,2), approach is
\* 0 at (2,2) and 2 at (0,0); the agent that starts at (0,0) with weight
\* 1.0 is at (1,1) after the first tick, interacts in the second tick, and
\* is then held in the registry with a weight of Adventure below 1.0.
C16_ReachesAndInteracts ==
    (world.statics[Centre] = "Dungeon") =>
        /\ maps["Adventure"].approach[Centre] = 0
        /\ maps["Adventure"].approach[Corner] = 2 * ONE
        /\ (out.calls = 1 /\ out.recs[1].pos = Corner) => DOMAIN mobs = {<<1, 1>>}
        /\ (out.calls = 2 /\ out.recs[1].pos = <<1, 1>>) =>
              /\ "Adventure" \in Reduced(out.recs[1].self0, out.recs[1].self1)
              /\ Keen < WEIGHT_ONE

\* ---------------------------------------------------------------------
\* Line of sight on its own: walls anywhere, one call of can_see.

LosWidth == 4

LosHeight == 3

LosWalls == 2

LosPoints == (0 .. LosWidth - 1) \X (0 .. LosHeight - 1)

InitLos ==
    /\ \E S \in SUBSET LosPoints :
          /\ Cardinality(S) <= LosWalls
          /\ world = WorldWith(LosWidth, LosHeight, [p \in S |-> "Wall"])
    /\ maps = MapsNew(world)
    /\ mobs = EmptyMobs
    /\ last = [op |-> "new", arg |-> NoPoint]
    /\ saved = NoMap
    /\ out = NoOut

\* one call can_see(start, end, world)
CanSee(start, end) ==
    /\ out.calls < MaxCalls
    /\ out' = [calls |-> out.calls + 1,
               recs |-> <<[proc |-> "can_see", start |-> start, end |-> end,
                           seen |-> can_see(start, end, world)]>>]
    /\ UNCHANGED <<world, maps, mobs, last, saved>>

NextLos == \E start \in Points(world), end \in Points(world) : CanSee(start, end)

SpecLos == InitLos /\ [][NextLos]_vars

\* w with the fixtures of the cells of S taken away
Cleared(w, S) == [w EXCEPT !.statics = [p \in DOMAIN @ |-> IF p \in S THEN NoStatic ELSE @[p]]]

\* C17: can_see(start, end) is what it would be with the start cell and the
\* end cell transparent, and can_see(p, p) is true.
C17_EndpointsDoNotBlock ==
    \A r \in Decisions :
        /\ r.seen = can_see(r.start, r.end, Cleared(world, {r.start, r.end}))
        /\ r.start = r.end => r.seen

\* ---------------------------------------------------------------------
\* a decision in which no stage has both found a candidate and committed it
GaveUp(r) == \A e \in Tried(r) : ~e.ok

\* C18: a decision that gives up changes nothing: the agent is where it
\* was with the desires it had, the registry is the one the decision
\* started from, and the heatmaps and the fixtures are those of before.
C18_GiveUpIsNoOp ==
    [][/\ maps' = maps
       /\ world' = world
       /\ \A r \in Decisions' :
              GaveUp(r) =>
                  /\ r.self1 = r.self0
                  /\ r.mobs1 = r.mobs0
                  /\ r.pos \in DOMAIN r.mobs1
                  /\ r.mobs1[r.pos] = r.self0
       /\ (\A r \in Decisions' : GaveUp(r)) => mobs' = mobs]_vars

C18_Witness ==
    \E r \in Decisions :
        /\ r.proc = "ai"
        /\ GaveUp(r)
        /\ r.trace[Len(r.trace)].stage = "give up"
        /\ \E e \in Tried(r) : e.cand # NoPoint
        /\ mobs = r.mobs0

\* the game loop's step that finds its cell taken and does not interact
C18_WitnessStep ==
    \E r \in Decisions :
        /\ r.proc = "step"
        /\ GaveUp(r)
        /\ r.trace[Len(r.trace)].stage = "there"

\* ---------------------------------------------------------------------
\* flood_fill round by round: a field, a queue of cells, one round of the
\* while loop per step.

FloodWidth == 3

FloodHeight == 2

FloodWalls == 1

FloodSeeds == 2

FloodRounds == 30

FloodMarks == 3

FloodPoints == (0 .. FloodWidth - 1) \X (0 .. FloodHeight - 1)

\* the values a cell of an approach field starts a fill with
FloodValues == {0, 3 * ONE, F64_MAX}

\* the fields that hold the sentinel on all but FloodMarks cells at most
FloodFields ==
    {field \in [FloodPoints -> FloodValues] :
        Cardinality({p \in FloodPoints : field[p] # F64_MAX}) <= FloodMarks}

\* the fill of field from seeds has been called and no round has run
FloodCalled(field, seeds) ==
    /\ saved = [on |-> TRUE, grid |-> field, queue |-> seeds]
    /\ last = [op |-> "flood_fill", arg |-> seeds, grid |-> field]

InitFlood ==
    /\ \E S \in SUBSET FloodPoints :
          /\ Cardinality(S) <= FloodWalls
          /\ world = WorldOf(FloodWidth, FloodHeight, S)
    /\ maps = MapsNew(world)
    /\ mobs = EmptyMobs
    /\ out = NoOut
    /\ \E field \in FloodFields :
          \* the fill of an approach field
          \/ \E n \in 0 .. FloodSeeds : \E seeds \in [1 .. n -> FloodPoints] :
                FloodCalled(field, seeds)
          \* the fill recompute_flee makes of flee_cowardly
          \/ LET m == [MapNew(world) EXCEPT !.approach = field]
             IN FloodCalled([p \in FloodPoints |->
                                IF field[p] # F64_MAX THEN FMul(field[p], COWARDICE_COEFF)
                                ELSE F64_MAX],
                            flee_minima(m, ScanOrder(world), 1, <<>>, F64_MAX))

\* one round of the while loop
Visit ==
    /\ saved.queue # <<>>
    /\ out.calls < FloodRounds
    /\ LET r == flood_visit(saved.grid, saved.queue, world)
       IN /\ saved' = [on |-> TRUE, grid |-> r.grid, queue |-> r.queue]
          /\ out' = [calls |-> out.calls + 1,
                     recs |-> <<[proc |-> "flood_fill", pos |-> r.pos, val |-> r.val,
                                 my_min |-> r.my_min, commit |-> r.commit,
                                 pushed |-> r.pushed, queue0 |-> saved.queue]>>]
    /\ UNCHANGED <<world, maps, mobs, last>>

NextFlood == Visit

SpecFlood == InitFlood /\ [][NextFlood]_vars

Drained == saved.queue = <<>>

\* what every round of a fill satisfies
RoundsInOrder ==
    /\ out.calls = 0 => saved.queue = last.arg /\ saved.grid = last.grid
    /\ \A r \in Decisions :
          /\ r.commit => /\ saved.grid[r.pos] = r.my_min
                         /\ r.val - r.my_min >= ONE
          /\ ~r.commit => saved.grid[r.pos] = r.val
          /\ r.pushed # <<>> => r.commit \/ r.val = 0
          /\ \A i \in DOMAIN r.pushed : Adjacent(r.pos, r.pushed[i])
          /\ saved.queue = Tail(r.queue0) \o r.pushed
    /\ Drained => saved.grid = flood_fill(last.grid, last.arg, world)
    /\ (Drained /\ last.arg = <<>>) => saved.grid = last.grid /\ out.calls = 0

\* C19: every fill runs out of cells to visit, within FloodRounds rounds; a
\* round that writes a cell lowers it by at least 1, and the cells a round
\* adds to the queue are neighbours of the cell it wrote or of the zero
\* cell it visited; a fill from no seed changes nothing.
C19_FloodTerminates ==
    /\ RoundsInOrder
    /\ out.calls = FloodRounds => Drained

C19_Witness ==
    /\ Drained
    /\ out.calls >= 4
    /\ saved.grid # last.grid
    /\ \E r \in Decisions : r.commit

\* ---------------------------------------------------------------------
\* the score heatmap travel gives cell in decision r
ScoreOf(r, cell) ==
    weight_here(r.self0, cell, locally_visible(r.pos, world), maps, r.proc = "ai", Len(TagOrder))

\* the cells heatmap travel scores in decision r
Scored(r) ==
    {c \in Points(world) : (Adjacent(r.pos, c) \/ (r.proc = "step" /\ c = r.pos))}

\* the scored cells heatmap travel can select
Eligible(r) ==
    {c \in Scored(r) : /\ FLess(ScoreOf(r, c), FMax)
                       /\ r.proc = "ai" => FNonZero(ScoreOf(r, c))}

\* the cell heatmap travel selected in decision r, NoPoint for none; Unscored
\* when the decision did not come to heatmap travel
Unscored == <<-1>>

Selected(r) ==
    IF r.proc = "step" THEN r.trace[1].cand
    ELSE IF \E e \in Tried(r) : e.stage = "heatmap"
    THEN (CHOOSE e \in Tried(r) : e.stage = "heatmap").cand
    ELSE Unscored

LeastOf(r, cells, c) == c \in cells /\ \A d \in cells : ~FLess(ScoreOf(r, d), ScoreOf(r, c))

\* C20 as stated: the 8 neighbours and the own cell are scored, a cell of
\* the least score is selected, and nothing is selected when that least
\* score is 0.
C20_GlobalMinimumOrNothing ==
    \A r \in Decisions :
        Selected(r) # Unscored =>
            LET all == {c \in Points(world) : Adjacent(r.pos, c) \/ c = r.pos}
                zero == \E c \in all : LeastOf(r, all, c) /\ ~FNonZero(ScoreOf(r, c))
            IN IF zero THEN Selected(r) \in {NoPoint, r.pos}
               ELSE LeastOf(r, all, Selected(r))

\* What the two scans select: ai_heatmap_wsum scores the in-bounds
\* neighbours, not the own cell, and selects one of least score among those
\* whose score is not 0 and is below f64::MAX, or nothing when there is
\* none; the ai of Mobile::step scores the own cell too, takes a score of 0
\* like any other, and selects the own cell when no score is below f64::MAX.
SelectsLeastEligible ==
    \A r \in Decisions :
        Selected(r) # Unscored =>
            IF Eligible(r) = {}
            THEN Selected(r) = (IF r.proc = "ai" THEN NoPoint ELSE r.pos)
            ELSE LeastOf(r, Eligible(r), Selected(r))

\* ---------------------------------------------------------------------
\* the stage of decision r that steps along the single-target field to target
PathStages(r) ==
    {<<e, target>> \in Tried(r) \X Points(world) :
        \/ e.stage = "task" /\ r.self0.priority_task = target
        \/ e.stage = "wander" /\ r.self0.home_pos = target}

\* C21: when the target of the priority task (or, for wander-home, the home
\* position) is reachable from the agent's cell, the step the stage chooses
\* is a neighbour of that cell holding the least value of the single-target
\* field among its neighbours, and a committed step is one step nearer.
C21_StepTowardsTarget ==
    \A r \in Decisions : \A st \in PathStages(r) :
        LET e == st[1]
            field == MapTo(st[2], world)
        IN (r.proc = "ai" /\ r.pos # st[2] /\ field[r.pos] # F64_MAX) =>
              /\ e.cand # NoPoint
              /\ Adjacent(r.pos, e.cand)
              /\ \A q \in Nbrs(r.pos) : field[e.cand] <= field[q]
              /\ e.ok => field[e.cand] = field[r.pos] - ONE

\* ---------------------------------------------------------------------
\* C22: an impassable cell that is not a source holds the sentinel in
\* approach; an impassable source holds 0 and its passable neighbours
\* that are not sources themselves hold 1.
C22_ImpassableNotRelaxed ==
    \A p \in Points(world) :
        ~Passable(p) =>
            IF p \in Srcs(M)
            THEN /\ M.approach[p] = 0
                 /\ \A q \in Nbrs(p) \ Srcs(M) : Passable(q) => M.approach[q] = ONE
            ELSE M.approach[p] = F64_MAX

\* ---------------------------------------------------------------------
\* the place of cell c in the scan around the agent of decision r
ScanIndex(r, c) ==
    LET cells == Around(r.pos, world)
    IN CHOOSE i \in DOMAIN cells : cells[i] = c

\* the cell of cells the scan of decision r considers first
FirstScanned(r, cells) ==
    CHOOSE c \in cells : \A d \in cells : ScanIndex(r, c) <= ScanIndex(r, d)

\* the cells of cells that hold the least score of cells
LeastCells(r, cells) == {c \in cells : LeastOf(r, cells, c)}

\* C23 as stated: of the scored cells that share the minimum score, the
\* one the scan considers first is chosen.
C23_FirstOfMinimum ==
    \A r \in Decisions :
        (Selected(r) # Unscored /\ LeastCells(r, Scored(r)) # {}) =>
            Selected(r) = FirstScanned(r, LeastCells(r, Scored(r)))

\* C23: of the cells a scan can select (a score below f64::MAX, and for
\* ai_heatmap_wsum a score that is not 0) that share the least score, the
\* one considered first is chosen, so no cell considered before the choice
\* has a score as small; when no cell can be selected, ai_heatmap_wsum
\* selects nothing and the scan of Mobile::step keeps the agent's own cell.
C23_FirstOfSelectableMinimum ==
    \A r \in Decisions :
        Selected(r) # Unscored =>
            LET sel == Selected(r)
                score == [c \in Scored(r) |-> ScoreOf(r, c)]
                cells == Around(r.pos, world)
                place == [c \in Scored(r) |-> CHOOSE i \in DOMAIN cells : cells[i] = c]
                elig == {c \in Scored(r) : /\ FLess(score[c], FMax)
                                           /\ r.proc = "ai" => FNonZero(score[c])}
            IN IF elig = {}
               THEN sel = (IF r.proc = "ai" THEN NoPoint ELSE r.pos)
               ELSE /\ sel \in elig
                    /\ \A c \in elig :
                          /\ ~FLess(score[c], score[sel])
                          /\ place[c] < place[sel] => FLess(score[sel], score[c])

\* two cells that can be selected share the least score
C23_Witness ==
    \E r \in Decisions :
        /\ Selected(r) \notin {Unscored, NoPoint}
        /\ Cardinality(LeastCells(r, Eligible(r))) >= 2
        /\ Selected(r) \in LeastCells(r, Eligible(r))
        /\ \E c \in LeastCells(r, Eligible(r)) : ScanIndex(r, c) > ScanIndex(r, Selected(r))

\* ---------------------------------------------------------------------
\* The mob generator (mobiles/gen.rs).  A training package counts by the
\* years it takes; the random draws are choices.

MIN_AGE == 5

ADULT_AGE == 13

MIN_ONSET == 20

MaxAge == 23

\* Option<usize>::None
NoAge == -1

\* TrainingPackage::years over YOUTH, PRE_ONSET and POST_ONSET
PackageYears(phase) ==
    CASE phase = "youth" -> {1, 2}
      [] phase = "pre" -> {1, 3}
      [] phase = "post" -> {1, 3}
      [] OTHER -> {}

\* gen up to the first training package: the blank mob, the onset drawn for
\* an adventurer older than MIN_ONSET, the years of each stage of life, and
\* train_childhood
gen_start(age, is_adventurer, onset) ==
    LET older == is_adventurer /\ age > MIN_ONSET
        years == IF older THEN <<ADULT_AGE - MIN_AGE, onset - ADULT_AGE, age - onset>>
                 ELSE IF age > ADULT_AGE THEN <<ADULT_AGE - MIN_AGE, age - ADULT_AGE, 0>>
                 ELSE <<age - MIN_AGE, 0, 0>>
    IN [mob |-> [age |-> 5,
                 onset_age |-> IF older THEN onset ELSE NoAge,
                 history |-> <<<<0, "Born">>, <<5, "Raised">>>>],
        target |-> age, is_adventurer |-> is_adventurer,
        phase |-> "youth", remaining |-> years[1],
        pre_years |-> years[2], post_years |-> years[3]]

\* gen between two training packages: when the years of a stage are used
\* up, the next stage begins; an adventurer's Onset is recorded before the
\* post-onset years; the sanity check ends the call
RECURSIVE gen_advance(_)
gen_advance(g) ==
    IF g.remaining > 0 \/ g.phase \in {"done", "panic"} THEN g
    ELSE IF g.phase = "youth"
    THEN gen_advance(IF g.target > ADULT_AGE
                     THEN [g EXCEPT !.phase = "pre", !.remaining = g.pre_years]
                     ELSE [g EXCEPT !.phase = "onset"])
    ELSE IF g.phase = "pre"
    THEN gen_advance([g EXCEPT !.phase = "onset"])
    ELSE IF g.phase = "onset"
    THEN gen_advance(IF g.is_adventurer
                     THEN [g EXCEPT !.mob.history = Append(@, <<g.mob.age, "Onset">>),
                                    !.phase = "post", !.remaining = g.post_years]
                     ELSE [g EXCEPT !.phase = "post"])
    ELSE [g EXCEPT !.phase = IF g.mob.age # g.target THEN "panic" ELSE "done"]

\* Mobile::train with a package of the given years, inside random_train
train(g, years) ==
    [g EXCEPT !.mob.age = @ + years,
              !.mob.history = Append(@, <<g.mob.age + years, "Learned">>),
              !.remaining = @ - years]

\* a generator has been called and has come to its first random package
Generating(op, g) ==
    /\ out = [calls |-> 0, recs |-> <<gen_advance(g)>>]
    /\ last = [op |-> op, arg |-> NoPoint]

InitGen ==
    /\ world = WorldOf(MapWidth, MapHeight, {})
    /\ maps = MapsNew(world)
    /\ mobs = EmptyMobs
    /\ saved = NoMap
    /\ \/ \E age \in MIN_ONSET .. MaxAge :
             \E onset \in MIN_ONSET .. (IF age > MIN_ONSET THEN age - 1 ELSE MIN_ONSET) :
                Generating("gen_adventurer", gen_start(age, TRUE, onset))
       \/ \E age \in MIN_AGE .. ADULT_AGE - 1 :
             Generating("gen_child", gen_start(age, FALSE, NoAge))
       \/ \E age \in ADULT_AGE .. MaxAge :
             Generating("gen_adult", gen_start(age, FALSE, NoAge))

\* one round of random_train: a package of the stage that fits the years left
Train(years) ==
    /\ LET g == out.recs[1]
       IN /\ g.remaining > 0
          /\ years \in PackageYears(g.phase)
          /\ years <= g.remaining
          /\ out' = [calls |-> out.calls + 1, recs |-> <<gen_advance(train(g, years))>>]
    /\ UNCHANGED <<world, maps, mobs, last, saved>>

NextGen == \E years \in 1 .. 3 : Train(years)

SpecGen == InitGen /\ [][NextGen]_vars

\* the mob a call of gen_adventurer has returned
Adventurers == {g \in Decisions : g.phase = "done" /\ last.op = "gen_adventurer"}

\* C24: a mob gen_adventurer returns has onset_age set, and its history
\* records the Onset at that age.
C24_OnsetAgeSet ==
    \A g \in Adventurers :
        /\ g.mob.onset_age # NoAge
        /\ \A i \in DOMAIN g.mob.history :
              g.mob.history[i][2] = "Onset" => g.mob.history[i][1] = g.mob.onset_age
        /\ \E i \in DOMAIN g.mob.history : g.mob.history[i][2] = "Onset"

\* ---------------------------------------------------------------------
\* C25: a desire reduction made by an interaction during a tick is not
\* lost: after the tick, the agent held in the registry at the place of the
\* interaction carries the reduced weights the step left it with.
C25_ReductionKept ==
    \A r \in Decisions :
        (r.proc = "step" /\ Reduced(r.self0, r.self1) # {}) =>
            /\ r.pos \in DOMAIN mobs
            /\ mobs[r.pos].desires = r.self1.desires

\* ---------------------------------------------------------------------
\* The game loop with one adventurer among walls and Dungeons.

QuestWidth == 4

QuestHeight == 3

QuestThings == 3

QuestTicks == 4

QuestPoints == (0 .. QuestWidth - 1) \X (0 .. QuestHeight - 1)

InitQuest ==
    /\ \E S \in SUBSET QuestPoints :
          /\ Cardinality(S) <= QuestThings
          /\ \E layout \in [S -> {"Wall", "Dungeon"}] :
                /\ world = WorldWith(QuestWidth, QuestHeight, layout)
                /\ maps = MapsOf(world)
                /\ \E a \in QuestPoints :
                      /\ ~is_occupied(a, EmptyMobs, world)
                      /\ mobs = MobsInsert(EmptyMobs, a, Mobile(Only("Adventure", WEIGHT_ONE), FALSE, NoPoint, <<0, 0>>))
    /\ last = [op |-> "rebuild_from_sources", arg |-> NoPoint]
    /\ saved = NoMap
    /\ out = NoOut

NextQuest == TickWithin(QuestTicks)

SpecQuest == InitQuest /\ [][NextQuest]_vars

\* the decision r ended in an interaction with a source of Adventure
Interacted(r) == "Adventure" \in Reduced(r.self0, r.self1)

\* C26: a lone agent that wants Adventure and can reach a source of it
\* either interacts with a source in a tick or ends the tick on a cell whose
\* approach distance is strictly smaller, so that it reaches and interacts
\* within as many ticks as its distance, without stopping or oscillating.
C26_ApproachesThenInteracts ==
    \A r \in Decisions :
        (r.proc = "step" /\ M.approach[r.pos] < F64_MAX) =>
            \/ Interacted(r)
            \/ \E q \in DOMAIN mobs :
                  /\ M.approach[q] < M.approach[r.pos]
                  /\ r.mobs1 = Relocated(r.mobs0, r.pos, q)

DupSources == 3

\* how many times p occurs in the source list of m
Occurrences(m, p) == Cardinality({i \in 1 .. Len(m.sources) : m.sources[i] = p})

AddAgain(p) == AddSourceAct(p, DupSources)

\* remove_source(p); `last` names p and `out.calls` keeps how many times
\* the list held p when the call began
RemoveAll(p) ==
    /\ maps' = [maps EXCEPT !["Adventure"] = remove_source(@, p, world)]
    /\ last' = [op |-> "remove_source", arg |-> p]
    /\ out' = [calls |-> Occurrences(maps["Adventure"], p), recs |-> <<>>]
    /\ saved' = NoMap
    /\ UNCHANGED <<world, mobs>>

NextDup ==
    \/ \E p \in Points(world) : AddAgain(p)
    \/ \E p \in Points(world) : RemoveAll(p)

SpecDup == Init /\ [][NextDup]_vars

\* C28: after remove_source(p) the source list does not hold p and
\* approach[p] is not 0, however many times p had been added before.
C28_RemovedEverywhere ==
    (last.op = "remove_source") =>
        /\ Occurrences(M, last.arg) = 0
        /\ M.approach[last.arg] # 0

\* remove_source(p) has run on a list that held p more than once, and
\* another source is left
C28_Witness ==
    /\ last.op = "remove_source"
    /\ out.calls >= 2
    /\ M.sources # <<>>

\* ---------------------------------------------------------------------
\* the positions of the decisions of the last tick, in the order taken
Stepped == [i \in DOMAIN out.recs |-> out.recs[i].pos]

\* C29: in one pass of the game loop every agent present at the start of
\* the tick takes exactly one decision, from the cell it held then: no
\* agent is skipped and no agent is stepped again at its new position.
C29_EachAgentOnce ==
    TickDone =>
        /\ Stepped = SelectSeq(PointOrder(world), LAMBDA p : p \in DOMAIN BeforeTick)
        /\ \A i \in DOMAIN out.recs : out.recs[i].self0 = BeforeTick[out.recs[i].pos]

\* a tick of two agents in which the first has moved to a cell that comes
\* later in the order of the pass, and the second has moved too
C29_Witness ==
    /\ TickDone
    /\ Len(out.recs) = 2
    /\ \E dest \in DOMAIN out.recs[1].mobs1 \ DOMAIN BeforeTick :
          \E i, j \in DOMAIN PointOrder(world) :
             /\ PointOrder(world)[i] = out.recs[1].pos
             /\ PointOrder(world)[j] = dest
             /\ i < j
    /\ out.recs[2].pos \notin DOMAIN mobs

\* ---------------------------------------------------------------------
\* ui/sdlui.rs and the 'ui loop of main.rs: the cursor under the keyboard.
\* The map is CursorWidth x CursorHeight cells (WIDTH x HEIGHT = 200 x 100
\* in the program) and the viewport half of it in each direction.

CursorWidth == 12

CursorHeight == 8

\* `let step = if self.is_zooming { 10 } else { 1 }`
ZoomStep == 10

viewport_width == CursorWidth \div 2

viewport_height == CursorHeight \div 2

SCROLL_OVERSHOOT == viewport_width \div 4

initial_cursor == <<viewport_width \div 2, viewport_height \div 2>>

\* usize::saturating_sub
saturating_sub(a, b) == IF a < b THEN 0 ELSE a - b

Least(a, b) == IF a < b THEN a ELSE b

\* SdlUI::new: the flags and the viewport
UiNew == [is_zooming |-> FALSE, is_scrolling |-> FALSE, viewport_top_left |-> <<0, 0>>]

scroll_viewport(ui, cursor, overshoot) ==
    LET tl == ui.viewport_top_left
        x == IF cursor[1] < tl[1] THEN saturating_sub(cursor[1], overshoot)
             ELSE IF cursor[1] >= tl[1] + viewport_width
             THEN Least(CursorWidth - viewport_width, cursor[1] + overshoot - viewport_width)
             ELSE tl[1]
        y == IF cursor[2] < tl[2] THEN saturating_sub(cursor[2], overshoot)
             ELSE IF cursor[2] >= tl[2] + viewport_height
             THEN Least(CursorHeight - viewport_height, cursor[2] + overshoot - viewport_height)
             ELSE tl[2]
    IN [ui EXCEPT !.viewport_top_left = <<x, y>>]

KeyEvents == {"ShiftDown", "ShiftUp", "AltDown", "AltUp", "Up", "Down", "Left", "Right"}

\* SdlUI::input_handler on a key event: the UI it leaves and the command
\* it returns, with `to` the cursor of a SetCursorTo
input_handler(ui, event, cursor) ==
    LET by == IF ui.is_zooming THEN ZoomStep ELSE 1
        tl == ui.viewport_top_left
        rendered(u) == [ui |-> u, command |-> "Render", to |-> NoPoint]
        scrolled(p) == rendered(scroll_viewport([ui EXCEPT !.viewport_top_left = p], cursor, 0))
        set_to(p) == [ui |-> ui, command |-> "SetCursorTo", to |-> p]
    IN CASE event = "ShiftDown" -> rendered([ui EXCEPT !.is_zooming = TRUE])
         [] event = "ShiftUp" -> rendered([ui EXCEPT !.is_zooming = FALSE])
         [] event = "AltDown" -> rendered([ui EXCEPT !.is_scrolling = TRUE])
         [] event = "AltUp" -> rendered([ui EXCEPT !.is_scrolling = FALSE])
         [] event = "Up" ->
                IF ui.is_scrolling THEN scrolled(<<tl[1], saturating_sub(tl[2], by)>>)
                ELSE set_to(<<cursor[1], saturating_sub(cursor[2], by)>>)
         [] event = "Down" ->
                IF ui.is_scrolling THEN scrolled(<<tl[1], Least(CursorHeight, tl[2] + by)>>)
                ELSE set_to(<<cursor[1], Least(CursorHeight, cursor[2] + by)>>)
         [] event = "Left" ->
                IF ui.is_scrolling THEN scrolled(<<saturating_sub(tl[1], by), tl[2]>>)
                ELSE set_to(<<saturating_sub(cursor[1], by), cursor[2]>>)
         [] event = "Right" ->
                IF ui.is_scrolling THEN scrolled(<<Least(CursorWidth, tl[1] + by), tl[2]>>)
                ELSE set_to(<<Least(CursorWidth, cursor[1] + by), cursor[2]>>)

\* game() before the loop: the world with its cursor, the UI in `saved`
InitCursor ==
    /\ world = [cursor |-> initial_cursor] @@ WorldOf(CursorWidth, CursorHeight, {})
    /\ saved = UiNew
    /\ maps = MapsNew(world)
    /\ mobs = EmptyMobs
    /\ last = [op |-> "new", arg |-> NoPoint]
    /\ out = NoOut

\* one round of the 'ui loop: render scrolls the viewport to the cursor,
\* the key event is handled and the command carried out
Key(event) ==
    /\ LET shown == scroll_viewport(saved, world.cursor, SCROLL_OVERSHOOT)
           r == input_handler(shown, event, world.cursor)
       IN /\ saved' = r.ui
          /\ world' = IF r.command = "SetCursorTo" THEN [world EXCEPT !.cursor = r.to]
                      ELSE world
    /\ last' = [op |-> event, arg |-> NoPoint]
    /\ UNCHANGED <<maps, mobs, out>>

NextCursor == \E event \in KeyEvents : Key(event)

SpecCursor == InitCursor /\ [][NextCursor]_vars

\* C30: after any sequence of arrow keys, with step 1 or with step 10
\* while zooming, the cursor is a point of the grid: 0 <= x < WIDTH and
\* 0 <= y < HEIGHT.
C30_CursorInGrid == world.cursor \in Points(world)

====
